---- MODULE Spec2Model ----
(***************************************************************************)
(* Rate-limit-aware caching layer of the crypto sentiment analyzer         *)
(* (server.js): the /api/mentions handler, the rate-limit gate             *)
(* (checkRateLimit / setRateLimit / calculateResetTime), the mention       *)
(* store (getCachedData / cacheData) and the administrative clear.         *)
(*                                                                         *)
(* Time is in milliseconds, as Date.now() is, counted from the start of    *)
(* the observation.  A handler is cut at its awaits: every action is the   *)
(* completion of one awaited query or upstream call together with the      *)
(* synchronous code that follows it up to the next await.                  *)
(***************************************************************************)
EXTENDS Integers, Sequences, FiniteSets, TLC

(* ---------------------------- bounds ---------------------------------- *)
NumReq == 2          \* request slots that may be in flight together
MaxArrivals == 3     \* requests accepted in one behaviour
MaxTicks == 1        \* the clock advances at most this many times
MaxCount == 1        \* largest tweet_count of an upstream bucket
MaxBuckets == 2      \* hourly buckets of a non-empty upstream result

(* ------------------------- units of time ------------------------------ *)
SecondMs == 1000
MinuteMs == 60 * SecondMs
HourMs == 60 * MinuteMs
HalfHourMs == 30 * MinuteMs
FineStepMs == 400

\* one advance of the clock: a little over half an hour, so that the time
\* left until a reset time is not a whole number of seconds
TickMs == HalfHourMs + FineStepMs

Min(a, b) == IF a <= b THEN a ELSE b
Max(a, b) == IF a >= b THEN a ELSE b

\* Math.floor in place of Math.ceil
CeilFloored(a, b) == a \div b

\* Math.ceil(a / b) for b > 0 and any integer a
Ceil(a, b) == -((-a) \div b)

RECURSIVE Pow2(_)
\* Math.pow(2, n)
Pow2(n) == IF n <= 0 THEN 1 ELSE 2 * Pow2(n - 1)

(* ------------------------- calculateResetTime ------------------------- *)
baseDelay == 15 * 60
maxDelay == 24 * 60 * 60

\* the delay without the 24 hour cap
backoffDelayUncapped(attempts) == baseDelay * Pow2(attempts)

\* the delay in seconds chosen for a given attempts value
backoffDelay(attempts) == Min(baseDelay * Pow2(attempts), maxDelay)

\* new Date(Date.now() + delay * 1000), t being Date.now()
calculateResetTime(attempts, t) == t + backoffDelay(attempts) * 1000

(* ------------------------------ symbols ------------------------------- *)
\* req.query.symbol: a string is a sequence of characters; <<>> is a
\* missing or empty parameter (both are falsy)
Symbols == {<<>>, <<"B">>, <<"$", "B">>}

\* `$${symbol}` whatever the symbol starts with
formatSymbolAlways(symbol) == <<"$">> \o symbol

\* symbol.startsWith('$') ? symbol : `$${symbol}`
formatSymbol(symbol) ==
    IF Len(symbol) > 0 /\ symbol[1] = "$" THEN symbol ELSE <<"$">> \o symbol

(* ---------------------------- the store ------------------------------- *)
VARIABLES
    now,        \* the clock, Date.now() and the database's NOW()
    rateLimit,  \* rows of table rate_limits with key 'twitter_rate_limit'
    mentions,   \* rows of table mentions
    req,        \* the /api/mentions invocations in flight, one per slot
    sent,       \* the response sent by the last step, with the invocation that sent it
    checked,    \* what checkRateLimit returned in the last step
    arrivals,   \* number of requests accepted so far
    booting     \* initializeDatabase of a restarted process has not finished

vars == <<now, rateLimit, mentions, req, sent, checked, arrivals, booting>>

Requests == 1..NumReq

RECURSIVE SortByTimestamp(_)
\* ORDER BY timestamp ASC
SortByTimestamp(rows) ==
    IF rows = {} THEN <<>>
    ELSE LET first == CHOOSE r \in rows : \A o \in rows : r.timestamp <= o.timestamp
         IN <<first>> \o SortByTimestamp(rows \ {first})

\* the SELECT without the lookback interval
cachedRowsNoLookback(symbol, hours, t) ==
    SortByTimestamp({[timestamp |-> m.timestamp, count |-> m.count] :
        m \in {x \in mentions : x.symbol = symbol /\ x.timestamp >= t}})

\* the SELECT of getCachedData: rows of the symbol not older than `hours`
cachedRows(symbol, hours, t) ==
    SortByTimestamp({[timestamp |-> m.timestamp, count |-> m.count] :
        m \in {x \in mentions : x.symbol = symbol /\ x.timestamp >= t - hours * HourMs}})

\* getCachedData: a failed connect or query is caught and gives []
getCachedData(symbol, hours, t, ok) ==
    IF ok THEN cachedRows(symbol, hours, t) ELSE <<>>

\* an upsert that adds the new count to the stored one
cacheDataAdd(symbol, count, timestamp) ==
    LET old == {m \in mentions : m.symbol = symbol /\ m.timestamp = timestamp}
    IN (mentions \ old) \cup
       (IF old = {}
        THEN {[symbol |-> symbol, timestamp |-> timestamp, count |-> count]}
        ELSE {[symbol |-> symbol, timestamp |-> timestamp,
               count |-> count + m.count] : m \in old})

\* an upsert that keeps the stored row: ON CONFLICT DO NOTHING
cacheDataKeep(symbol, count, timestamp) ==
    IF \E m \in mentions : m.symbol = symbol /\ m.timestamp = timestamp
    THEN mentions
    ELSE mentions \cup {[symbol |-> symbol, timestamp |-> timestamp, count |-> count]}

\* the upsert of cacheData: ON CONFLICT (symbol, timestamp) DO UPDATE SET count
cacheData(symbol, count, timestamp) ==
    {m \in mentions : ~(m.symbol = symbol /\ m.timestamp = timestamp)}
        \cup {[symbol |-> symbol, timestamp |-> timestamp, count |-> count]}

(* --------------------------- checkRateLimit --------------------------- *)
\* what checkRateLimit returns when nothing limits the request; it is also
\* the answer of its catch block
permitted(t) ==
    [canMakeRequest |-> TRUE, attempts |-> 0, resetTime |-> t, waitSeconds |-> 0]

\* resetTime >= now
inEffectInclusive(resetTime, t) == resetTime >= t

\* resetTime > now
inEffect(resetTime, t) == resetTime > t

\* a checkRateLimit whose catch block answers that the gate is closed
checkRateLimitDenyOnError(t, ok) ==
    IF ok
    THEN IF \E row \in rateLimit : inEffect(row.value, t)
         THEN LET limit == CHOOSE row \in rateLimit : TRUE
              IN [canMakeRequest |-> FALSE, resetTime |-> limit.value,
                  waitSeconds |-> Max(0, Ceil(limit.value - t, 1000)),
                  attempts |-> limit.attempts]
         ELSE permitted(t)
    ELSE [canMakeRequest |-> FALSE, resetTime |-> t + 15 * MinuteMs,
          waitSeconds |-> 900, attempts |-> 0]

checkRateLimit(t, ok) ==
    IF ok /\ rateLimit # {}
    THEN LET limit == CHOOSE row \in rateLimit : TRUE
         IN IF inEffect(limit.value, t)
            THEN [canMakeRequest |-> FALSE,
                  resetTime |-> limit.value,
                  waitSeconds |-> Max(0, Ceil(limit.value - t, 1000)),
                  attempts |-> limit.attempts]
            ELSE permitted(t)
    ELSE permitted(t)

\* a checkRateLimit whose catch block denies
checkRateLimitFailClosed(t, ok) ==
    ok /\ \A row \in rateLimit : ~inEffect(row.value, t)

\* checkRateLimit of the first variant of the server: a boolean, true in its
\* catch block
checkRateLimit_000(t, ok) ==
    IF ok /\ rateLimit # {}
    THEN LET limit == CHOOSE row \in rateLimit : TRUE
         IN ~inEffect(limit.value, t)
    ELSE TRUE

\* checkRateLimit of the 15-minute variant of the server:
\* { canMakeRequest: true } when nothing limits and in its catch block
checkRateLimit_003(t, ok) ==
    IF ok /\ rateLimit # {}
    THEN LET limit == CHOOSE row \in rateLimit : TRUE
         IN IF inEffect(limit.value, t)
            THEN [canMakeRequest |-> FALSE,
                  resetTime |-> limit.value,
                  waitSeconds |-> Ceil(limit.value - t, 1000)]
            ELSE [canMakeRequest |-> TRUE]
    ELSE [canMakeRequest |-> TRUE]

(* ----------------------------- responses ------------------------------ *)
NoResponse ==
    [status |-> 0, source |-> "none", timestamps |-> <<>>, counts |-> <<>>,
     totalMentions |-> 0, period |-> "none", resetTime |-> 0, waitSeconds |-> 0,
     message |-> "none"]

\* a total that is the count of the latest bucket only
SumCountsLast(data) ==
    IF data = <<>> THEN 0 ELSE data[Len(data)].count

RECURSIVE SumCounts(_)
\* reduce((sum, d) => sum + d.count, 0)
SumCounts(data) ==
    IF data = <<>> THEN 0 ELSE data[1].count + SumCounts(Tail(data))

seriesResponse(data, source, period) ==
    [NoResponse EXCEPT !.status = 200, !.source = source, !.period = period,
        !.timestamps = [i \in 1..Len(data) |-> data[i].timestamp],
        !.counts = [i \in 1..Len(data) |-> data[i].count],
        !.totalMentions = SumCounts(data)]

rateLimitedResponse(resetTime, waitSeconds) ==
    [NoResponse EXCEPT !.status = 429, !.resetTime = resetTime,
        !.waitSeconds = waitSeconds]

errorResponse(status) == [NoResponse EXCEPT !.status = status]

\* res.status(400).json({ error: 'Symbol is required' })
symbolRequiredResponse ==
    [NoResponse EXCEPT !.status = 400, !.message = "Symbol is required"]

(* ------------------------------ requests ------------------------------ *)
cacheHours == 1                      \* getCachedData(formattedSymbol, 1)
searchLookbackMs == 7 * 24 * HourMs  \* start_time: Date.now() - 7 days

\* The locals of an invocation and a record of what it has done so far:
\* rows its cache lookup returned, calls of checkRateLimit, of the upstream
\* API and of cacheData, the lookback of the two windows it used, whether
\* all its store queries succeeded (storeOk) and the code of the error its
\* upstream call was rejected with (upstreamError, 0 for none).  `tweets`
\* is the result of twitterClient.v2.search in the variants of the server
\* that count the tweets themselves: the created_at of each tweet;
\* `rateLimitStatus` is what the pre-flight checkRateLimit resolved with,
\* kept where the query and the handler's next turn are taken apart.
IdleReq ==
    [pc |-> "idle", formattedSymbol |-> <<>>, processedData |-> <<>>, next |-> 0,
     nextAttempts |-> 0, resetTime |-> 0,
     cacheHits |-> 0, gateChecks |-> 0, upstreamCalls |-> 0, cacheWrites |-> 0,
     cacheWindowMs |-> 0, searchWindowMs |-> 0, storeOk |-> TRUE,
     upstreamError |-> 0, tweets |-> <<>>, rateLimitStatus |-> permitted(0)]

\* value of `sent` after a step that sends no response
Quiet == [res |-> NoResponse, by |-> IdleReq]

\* value of `checked` after a step that does not call checkRateLimit
Unchecked == [called |-> FALSE, ok |-> TRUE, status |-> permitted(0)]

Check(status, ok) == [called |-> TRUE, ok |-> ok, status |-> status]

\* a path that returns without sending anything
EndSilently(r, by, response) ==
    /\ req' = [req EXCEPT ![r] = IdleReq]
    /\ sent' = Quiet

\* res.json(...) / res.status(...).json(...): the invocation ends
Respond(r, by, response) ==
    /\ req' = [req EXCEPT ![r] = IdleReq]
    /\ sent' = [res |-> response, by |-> by]

\* the invocation goes on to its next await
Continue(r, locals) ==
    /\ req' = [req EXCEPT ![r] = locals]
    /\ sent' = Quiet

Init ==
    /\ now = 0
    /\ rateLimit = {}      \* initializeDatabase clears the row on startup
    /\ mentions = {}
    /\ req = [r \in Requests |-> IdleReq]
    /\ sent = Quiet
    /\ checked = Unchecked
    /\ arrivals = 0
    /\ booting = FALSE

(* ------------------------------ the clock ----------------------------- *)
Tick ==
    /\ now \div TickMs < MaxTicks
    /\ now' = now + TickMs
    /\ sent' = Quiet /\ checked' = Unchecked
    /\ UNCHANGED <<rateLimit, mentions, req, arrivals, booting>>

(* --------------------- GET /api/mentions, by await -------------------- *)
\* the parameter never tested
missingSymbolNever(symbol) == FALSE

\* if (!symbol)
missingSymbol(symbol) == symbol = <<>>

\* the handler up to `await getCachedData(formattedSymbol, 1)`; a new
\* invocation takes the lowest free slot
Arrive(r, symbol) ==
    /\ req[r].pc = "idle"
    /\ \A o \in 1..(r - 1) : req[o].pc # "idle"
    /\ arrivals < MaxArrivals
    /\ arrivals' = arrivals + 1
    /\ IF missingSymbol(symbol)
       THEN Respond(r, IdleReq, symbolRequiredResponse)
       ELSE Continue(r, [IdleReq EXCEPT !.pc = "cache",
                            !.formattedSymbol = formatSymbol(symbol)])
    /\ checked' = Unchecked
    /\ UNCHANGED <<now, rateLimit, mentions, booting>>

\* the cached rows never used
cacheHitNever(cachedData) == FALSE

\* cachedData.length > 1
cacheHitOverOne(cachedData) == Len(cachedData) > 1

\* cachedData.length > 0
cacheHit(cachedData) == Len(cachedData) > 0

\* getCachedData returns; a hit answers, a miss goes on to checkRateLimit
CacheLookup(r, ok) ==
    /\ req[r].pc = "cache"
    /\ LET cachedData == getCachedData(req[r].formattedSymbol, cacheHours, now, ok)
           looked == [req[r] EXCEPT !.cacheWindowMs = cacheHours * HourMs,
                                    !.cacheHits = Len(cachedData),
                                    !.storeOk = @ /\ ok]
       IN IF cacheHit(cachedData)
          THEN Respond(r, looked, seriesResponse(cachedData, "cache", "1 hour"))
          ELSE Continue(r, [looked EXCEPT !.pc = "gate"])
    /\ checked' = Unchecked
    /\ UNCHANGED <<now, rateLimit, mentions, arrivals, booting>>

\* a read that also removes the rows that have expired
afterSelectPurge(rows) == {row \in rows : row.value > now}

\* what the SELECT of checkRateLimit leaves in the table
afterSelect(rows) == rows

\* checkRateLimit returns; a closed gate answers 429, an open one calls
\* twitterClient.v2.tweetCountsRecent
GateCheck(r, ok) ==
    /\ req[r].pc = "gate"
    /\ LET rateLimitStatus == checkRateLimit(now, ok)
           gated == [req[r] EXCEPT !.gateChecks = @ + 1, !.storeOk = @ /\ ok]
       IN /\ checked' = Check(rateLimitStatus, ok)
          /\ IF ~rateLimitStatus.canMakeRequest
             THEN Respond(r, gated, rateLimitedResponse(rateLimitStatus.resetTime,
                                                       rateLimitStatus.waitSeconds))
             ELSE Continue(r, [gated EXCEPT !.pc = "upstream",
                                !.upstreamCalls = @ + 1,
                                !.searchWindowMs = searchLookbackMs])
    /\ rateLimit' = afterSelect(rateLimit)
    /\ UNCHANGED <<now, mentions, arrivals, booting>>

(* --------------------------- the upstream API ------------------------- *)
\* start of the hour that contains t
HourFloor(t) == (t \div HourMs) * HourMs

\* `end` of the i-th of the buckets of a result produced at t: hourly
\* buckets, the last one partial and ending at t
BucketEnd(i, t) ==
    IF i = MaxBuckets THEN t ELSE HourFloor(t) - (MaxBuckets - i) * HourMs

\* tweet_count of the complete hourly bucket that ended at `end`: the past
\* does not change between two calls
HistoryCount(end) == (end \div HourMs) % (MaxCount + 1)

\* tweets.data: empty (an absent data field is handled like an empty one),
\* or one bucket per hour in ascending order of `end`, of which the most
\* recent MaxBuckets are kept; only the count of the partial bucket is open
UpstreamData(t) ==
    {<<>>} \cup {[i \in 1..MaxBuckets |->
                    [end |-> BucketEnd(i, t),
                     tweet_count |-> IF i = MaxBuckets THEN c
                                     ELSE HistoryCount(BucketEnd(i, t))]] :
                        c \in 0..MaxCount}

\* tweets.data.map(d => ({ timestamp: d.end, count: d.tweet_count }))
processData(data) ==
    [i \in 1..Len(data) |-> [timestamp |-> data[i].end, count |-> data[i].tweet_count]]

\* tweetCountsRecent resolves with a result
UpstreamReturn(r, data) ==
    /\ req[r].pc = "upstream"
    /\ IF Len(data) = 0
       THEN Respond(r, req[r], seriesResponse(<<>>, "twitter", "7 days"))
       ELSE Continue(r, [req[r] EXCEPT !.pc = "caching", !.next = 1,
                            !.processedData = processData(data)])
    /\ checked' = Unchecked
    /\ UNCHANGED <<now, rateLimit, mentions, arrivals, booting>>

\* every upstream rejection taken for a throttling error
isThrottleAny(code) == TRUE

\* an authentication failure taken for a throttling error as well
isThrottleOrAuth(code) == code \in {429, 401}

\* twitterError.code === 429
isThrottle(code) == code = 429

\* tweetCountsRecent rejects: code 429 goes to the rate-limit branch (its
\* checkRateLimit is awaited next), anything else is rethrown to the outer
\* catch
UpstreamFail(r, code) ==
    /\ req[r].pc = "upstream"
    /\ IF isThrottle(code)
       THEN Continue(r, [req[r] EXCEPT !.pc = "throttled", !.upstreamError = code])
       ELSE Respond(r, [req[r] EXCEPT !.upstreamError = code], errorResponse(500))
    /\ checked' = Unchecked
    /\ UNCHANGED <<now, rateLimit, mentions, arrivals, booting>>

\* one `await cacheData(...)` of the caching loop completes; a rejected
\* query has no code 429, is rethrown by the inner catch and answered by
\* the outer one
CacheWrite(r, ok) ==
    /\ req[r].pc = "caching"
    /\ LET dataPoint == req[r].processedData[req[r].next]
           written == [req[r] EXCEPT !.cacheWrites = @ + 1, !.storeOk = @ /\ ok]
       IN IF ok
          THEN /\ mentions' = cacheData(req[r].formattedSymbol, dataPoint.count,
                                        dataPoint.timestamp)
               /\ IF req[r].next = Len(req[r].processedData)
                  THEN Respond(r, written, seriesResponse(req[r].processedData,
                                                         "twitter", "7 days"))
                  ELSE Continue(r, [written EXCEPT !.next = @ + 1])
          ELSE /\ mentions' = mentions
               /\ Respond(r, written, errorResponse(500))
    /\ checked' = Unchecked
    /\ UNCHANGED <<now, rateLimit, arrivals, booting>>

\* the increment forgotten
nextAttemptsSame(currentAttempts) == currentAttempts

\* (currentAttempts || 0) + 1
nextAttemptsOf(currentAttempts) == currentAttempts + 1

\* 429 branch: checkRateLimit returns and setRateLimit runs up to its
\* `await pool.query`, so the reset time is computed from this moment
ThrottleCheck(r, ok) ==
    /\ req[r].pc = "throttled"
    /\ LET rateLimitStatus == checkRateLimit(now, ok)
           nextAttempts == nextAttemptsOf(rateLimitStatus.attempts)
       IN /\ checked' = Check(rateLimitStatus, ok)
          /\ Continue(r, [req[r] EXCEPT !.pc = "setRateLimit",
                            !.gateChecks = @ + 1,
                            !.storeOk = @ /\ ok,
                            !.nextAttempts = nextAttempts,
                            !.resetTime = calculateResetTime(nextAttempts, now)])
    /\ rateLimit' = afterSelect(rateLimit)
    /\ UNCHANGED <<now, mentions, arrivals, booting>>

\* an upsert whose DO UPDATE sets the value and leaves the attempts
upsertValueOnly(value, attempts) ==
    IF rateLimit = {} THEN {[value |-> value, attempts |-> attempts]}
    ELSE {[value |-> value, attempts |-> row.attempts] : row \in rateLimit}

\* the INSERT ... ON CONFLICT (key) DO UPDATE of setRateLimit
upsertRateLimit(value, attempts) == {[value |-> value, attempts |-> attempts]}

\* what setRateLimit returns: the computed time, or 15 minutes from now if
\* the query failed
setRateLimitResult(resetTime, t, ok) ==
    IF ok THEN resetTime ELSE t + 15 * 60 * 1000

\* Math.max(0, Math.ceil((resetTime - new Date()) / 1000))
waitSecondsUntil(resetTime, t) == Max(0, Ceil(resetTime - t, 1000))

\* the query of setRateLimit completes and the 429 is sent
ThrottleWrite(r, ok) ==
    /\ req[r].pc = "setRateLimit"
    /\ rateLimit' = IF ok THEN upsertRateLimit(req[r].resetTime, req[r].nextAttempts)
                    ELSE rateLimit
    /\ LET resetTime == setRateLimitResult(req[r].resetTime, now, ok)
       IN Respond(r, [req[r] EXCEPT !.storeOk = @ /\ ok],
                  rateLimitedResponse(resetTime, waitSecondsUntil(resetTime, now)))
    /\ checked' = Unchecked
    /\ UNCHANGED <<now, mentions, arrivals, booting>>

(* --------------------- POST /api/reset-rate-limit --------------------- *)
resetResponse(ok) ==
    IF ok THEN [NoResponse EXCEPT !.status = 200,
                                  !.message = "Rate limit reset successful"]
    ELSE [NoResponse EXCEPT !.status = 500, !.message = "Failed to reset rate limit"]

\* an UPDATE that takes back one attempt instead of removing the row
decrementAttempts(rows) ==
    {[row EXCEPT !.attempts = @ - 1] : row \in {o \in rows : o.attempts > 1}}

\* a DELETE that removes only a row that has expired
deleteExpired(rows) == {row \in rows : row.value > now}

\* DELETE FROM rate_limits WHERE key = 'twitter_rate_limit'
deleteRateLimit(rows) == {}

\* the handler of /api/reset-rate-limit
ResetRateLimit(ok) ==
    /\ rateLimit' = IF ok THEN deleteRateLimit(rateLimit) ELSE rateLimit
    /\ sent' = [res |-> resetResponse(ok), by |-> IdleReq]
    /\ checked' = Unchecked
    /\ UNCHANGED <<now, mentions, req, arrivals, booting>>

(* --------------------------- GET /api/status -------------------------- *)
statusResponse(rateLimitStatus) ==
    IF rateLimitStatus.canMakeRequest
    THEN [NoResponse EXCEPT !.status = 200, !.message = "No rate limit in effect"]
    ELSE [NoResponse EXCEPT !.status = 200, !.message = "Rate limited until",
                            !.resetTime = rateLimitStatus.resetTime]

\* The handler of /api/status: 503 without credentials or when `SELECT
\* NOW()` fails, else the answer of checkRateLimit.  The first query reads
\* and writes no table, so the handler is taken at its second await.
Status(credentials, dbOk, ok) ==
    /\ IF ~credentials \/ ~dbOk
       THEN /\ sent' = [res |-> errorResponse(503), by |-> IdleReq]
            /\ checked' = Unchecked
            /\ rateLimit' = rateLimit
       ELSE LET rateLimit_ == checkRateLimit(now, ok)
            IN /\ sent' = [res |-> statusResponse(rateLimit_), by |-> IdleReq]
               /\ checked' = Check(rateLimit_, ok)
               /\ rateLimit' = afterSelect(rateLimit)
    /\ UNCHANGED <<now, mentions, req, arrivals, booting>>

(* ------------------------------ restart ------------------------------- *)
\* The process is stopped and started again: the invocations in flight are
\* gone and initializeDatabase is called without being awaited, so requests
\* are served while it runs.
Restart ==
    /\ ~booting
    /\ booting' = TRUE
    /\ req' = [r \in Requests |-> IdleReq]
    /\ sent' = Quiet /\ checked' = Unchecked
    /\ UNCHANGED <<now, rateLimit, mentions, arrivals>>

\* initializeDatabase: CREATE TABLE IF NOT EXISTS changes no row, then
\* DELETE FROM rate_limits WHERE key = 'twitter_rate_limit'; a failure of
\* either query is caught and logged
initializeDatabase(ok) ==
    /\ booting
    /\ booting' = FALSE
    /\ rateLimit' = IF ok THEN deleteRateLimit(rateLimit) ELSE rateLimit
    /\ sent' = Quiet /\ checked' = Unchecked
    /\ UNCHANGED <<now, mentions, req, arrivals>>

(* --------------------------- specification ---------------------------- *)
Next ==
    \/ Tick
    \/ Restart
    \/ \E ok \in BOOLEAN : initializeDatabase(ok)
    \/ \E credentials \in BOOLEAN, dbOk \in BOOLEAN, ok \in BOOLEAN :
            Status(credentials, dbOk, ok)
    \/ \E r \in Requests, symbol \in Symbols : Arrive(r, symbol)
    \/ \E r \in Requests, ok \in BOOLEAN : CacheLookup(r, ok)
    \/ \E r \in Requests, ok \in BOOLEAN : GateCheck(r, ok)
    \/ \E r \in Requests : \E data \in UpstreamData(now) : UpstreamReturn(r, data)
    \/ \E r \in Requests, code \in {429, 401} : UpstreamFail(r, code)
    \/ \E r \in Requests, ok \in BOOLEAN : CacheWrite(r, ok)
    \/ \E r \in Requests, ok \in BOOLEAN : ThrottleCheck(r, ok)
    \/ \E r \in Requests, ok \in BOOLEAN : ThrottleWrite(r, ok)
    \/ \E ok \in BOOLEAN : ResetRateLimit(ok)

Spec == Init /\ [][Next]_vars

(* ----------------------- one request at a time ------------------------ *)
\* a request that arrives while no other invocation is in flight
ArriveAlone(r, symbol) ==
    /\ \A o \in Requests : req[o].pc = "idle"
    /\ Arrive(r, symbol)

NextSeq ==
    \/ Tick
    \/ Restart
    \/ \E ok \in BOOLEAN : initializeDatabase(ok)
    \/ \E credentials \in BOOLEAN, dbOk \in BOOLEAN, ok \in BOOLEAN :
            Status(credentials, dbOk, ok)
    \/ \E r \in Requests, symbol \in Symbols : ArriveAlone(r, symbol)
    \/ \E r \in Requests, ok \in BOOLEAN : CacheLookup(r, ok)
    \/ \E r \in Requests, ok \in BOOLEAN : GateCheck(r, ok)
    \/ \E r \in Requests : \E data \in UpstreamData(now) : UpstreamReturn(r, data)
    \/ \E r \in Requests, code \in {429, 401} : UpstreamFail(r, code)
    \/ \E r \in Requests, ok \in BOOLEAN : CacheWrite(r, ok)
    \/ \E r \in Requests, ok \in BOOLEAN : ThrottleCheck(r, ok)
    \/ \E r \in Requests, ok \in BOOLEAN : ThrottleWrite(r, ok)
    \/ \E ok \in BOOLEAN : ResetRateLimit(ok)

SeqSpec == Init /\ [][NextSeq]_vars

(* ------------------ the backoff schedule on its own ------------------- *)
MaxCurrentAttempts == 8   \* largest attempts value of the persisted row

\* An invocation has just received a 429 from upstream while the persisted
\* row records any number of earlier attempts (no row stands for none); the
\* row was written just now, a moment ago, or so long ago that it expires
\* at this very instant.
InitBackoff ==
    /\ now = 0
    /\ mentions = {}
    /\ sent = Quiet
    /\ checked = Unchecked
    /\ arrivals = 1
    /\ booting = FALSE
    /\ \E a \in 0..MaxCurrentAttempts :
        \E age \in {0, FineStepMs, backoffDelay(a) * 1000} :
            rateLimit = IF a = 0 THEN {}
                        ELSE upsertRateLimit(calculateResetTime(a, 0 - age), a)
    /\ req = [r \in Requests |->
                IF r = 1
                THEN [IdleReq EXCEPT !.pc = "throttled",
                        !.formattedSymbol = formatSymbol(<<"B">>),
                        !.cacheWindowMs = cacheHours * HourMs,
                        !.gateChecks = 1, !.upstreamCalls = 1,
                        !.upstreamError = 429,
                        !.searchWindowMs = searchLookbackMs]
                ELSE IdleReq]

NextBackoff ==
    \/ Tick
    \/ \E ok \in BOOLEAN : ThrottleCheck(1, ok)
    \/ \E ok \in BOOLEAN : ThrottleWrite(1, ok)

BackoffSpec == InitBackoff /\ [][NextBackoff]_vars

(* ------------------- concurrent setRateLimit calls -------------------- *)
\* Every slot holds an invocation that passed the open gate and whose
\* upstream call was rejected with code 429; none has recorded it yet.
InitThrottleRace ==
    /\ now = 0
    /\ rateLimit = {}
    /\ mentions = {}
    /\ sent = Quiet
    /\ checked = Unchecked
    /\ arrivals = NumReq
    /\ booting = FALSE
    /\ req = [r \in Requests |->
                [IdleReq EXCEPT !.pc = "throttled",
                    !.formattedSymbol = formatSymbol(<<"B">>),
                    !.cacheWindowMs = cacheHours * HourMs,
                    !.gateChecks = 1, !.upstreamCalls = 1,
                    !.upstreamError = 429,
                    !.searchWindowMs = searchLookbackMs]]

NextThrottleRace ==
    \/ Tick
    \/ \E r \in Requests, ok \in BOOLEAN : ThrottleCheck(r, ok)
    \/ \E r \in Requests, ok \in BOOLEAN : ThrottleWrite(r, ok)

ThrottleRaceSpec == InitThrottleRace /\ [][NextThrottleRace]_vars

(* --------------------- concurrent cacheData loops --------------------- *)
\* Every slot holds an invocation for the same symbol whose upstream call,
\* made at this moment, returned buckets; none has cached one yet.
InitCachingRace ==
    /\ now = 0
    /\ rateLimit = {}
    /\ mentions = {}
    /\ sent = Quiet
    /\ checked = Unchecked
    /\ arrivals = NumReq
    /\ booting = FALSE
    /\ req \in [Requests ->
                {[IdleReq EXCEPT !.pc = "caching", !.next = 1,
                    !.processedData = processData(data),
                    !.formattedSymbol = formatSymbol(<<"B">>),
                    !.cacheWindowMs = cacheHours * HourMs,
                    !.gateChecks = 1, !.upstreamCalls = 1,
                    !.searchWindowMs = searchLookbackMs] :
                        data \in UpstreamData(0) \ {<<>>}}]

NextCachingRace ==
    \/ Tick
    \/ \E r \in Requests, ok \in BOOLEAN : CacheWrite(r, ok)

CachingRaceSpec == InitCachingRace /\ [][NextCachingRace]_vars

(* ------------------- the clear against every row ---------------------- *)
\* A row of any number of attempts is persisted, written just now, a moment
\* ago, or so long ago that it expires at this very instant; no request is
\* in flight.
InitClear ==
    /\ now = 0
    /\ mentions = {}
    /\ sent = Quiet
    /\ checked = Unchecked
    /\ arrivals = 0
    /\ booting = FALSE
    /\ req = [r \in Requests |-> IdleReq]
    /\ \E a \in 1..MaxCurrentAttempts :
        \E age \in {0, FineStepMs, backoffDelay(a) * 1000} :
            rateLimit = upsertRateLimit(calculateResetTime(a, 0 - age), a)

\* Clears, status checks and requests that upstream answers without
\* throttling (with a result, or rejecting the credentials): no call of
\* setRateLimit is made, the process is not restarted and the store
\* accepts every row cached.
NextClear ==
    \/ Tick
    \/ \E ok \in BOOLEAN : ResetRateLimit(ok)
    \/ \E credentials \in BOOLEAN, dbOk \in BOOLEAN, ok \in BOOLEAN :
            Status(credentials, dbOk, ok)
    \/ \E r \in Requests : ArriveAlone(r, <<"B">>)
    \/ \E r \in Requests, ok \in BOOLEAN : CacheLookup(r, ok)
    \/ \E r \in Requests, ok \in BOOLEAN : GateCheck(r, ok)
    \/ \E r \in Requests : \E data \in UpstreamData(now) : UpstreamReturn(r, data)
    \/ \E r \in Requests : UpstreamFail(r, 401)
    \/ \E r \in Requests : CacheWrite(r, TRUE)

ClearSpec == InitClear /\ [][NextClear]_vars

(* ------------- the variants that bucket the tweets themselves --------- *)
MaxEvents == 3        \* tweets of one search result
MaxWindowHours == 2   \* longest window of the hourly variant, in hours

QuarterMs == 15 * MinuteMs

\* tweetTime.setMinutes(Math.floor(tweetTime.getMinutes() / 15) * 15, 0, 0)
QuarterFloor(t) == (t \div QuarterMs) * QuarterMs

\* hourly variant: the entry of hourlyData for `key` after the forEach over
\* tweets.data, one increment per tweet whose created_at, floored by
\* setMinutes(0, 0, 0), is the key
tally_000(tweets, key) ==
    Cardinality({i \in 1..Len(tweets) : HourFloor(tweets[i]) = key})

\* 15-minute variant: the same with the flooring to the quarter hour
tally_003(tweets, key) ==
    Cardinality({i \in 1..Len(tweets) : QuarterFloor(tweets[i]) = key})

\* for (time = startTime; time <= endTime; time.setHours(time.getHours() + 1))
hourlyTimestamps(startTime, endTime) ==
    [k \in 1..((endTime - startTime) \div HourMs + 1) |->
        startTime + (k - 1) * HourMs]

\* hourly variant: sortedData = hourlyTimestamps.map(timestamp =>
\* ({ timestamp, count: hourlyData.get(timestamp) || 0 })); a key that only
\* a tweet added to hourlyData is not among hourlyTimestamps
sortedData_000(tweets, startTime, endTime) ==
    LET stamps == hourlyTimestamps(startTime, endTime)
    IN [k \in 1..Len(stamps) |->
            [timestamp |-> stamps[k], count |-> tally_000(tweets, stamps[k])]]

\* 15-minute variant: the keys of hourlyData are the generated ones
\* (startTime, startTime + 15 min, ... <= now) and the floored created_at of
\* every tweet; sortedData is all its entries sorted by time
sortedData_003(tweets, startTime, endTime) ==
    LET generated == {startTime + j * QuarterMs :
                        j \in 0..((endTime - startTime) \div QuarterMs)}
        counted == {QuarterFloor(tweets[i]) : i \in 1..Len(tweets)}
    IN SortByTimestamp({[timestamp |-> key,
                         count |-> tally_003(tweets, key)] :
                            key \in generated \cup counted})

\* moments at which the search is made: on the hour, and 20 minutes past
AggNows == {10 * HourMs, 10 * HourMs + 20 * MinuteMs}

\* created_at of a tweet, in minutes after the start of the window: before
\* the window, in its first hour, in later hours
EventOffsets == {0 - 5, 5, 35, 65, 125}

\* tweets.data of a search over the window that starts at startTime
SearchResults(startTime) ==
    UNION {[1..n -> {startTime + o * MinuteMs : o \in EventOffsets}] :
                n \in 0..MaxEvents}

\* An invocation of one of the two variants has missed the empty cache,
\* found the gate open and awaits twitterClient.v2.search; the hourly
\* variant looks back a whole number of hours (7 * 24 in the source), the
\* 15-minute variant one hour.
InitAgg ==
    /\ now \in AggNows
    /\ rateLimit = {}
    /\ mentions = {}
    /\ sent = Quiet
    /\ checked = Unchecked
    /\ arrivals = 1
    /\ booting = FALSE
    /\ \E started \in
            {[IdleReq EXCEPT !.pc = "search_000", !.searchWindowMs = h * HourMs,
                             !.cacheWindowMs = 168 * HourMs] : h \in 1..MaxWindowHours}
            \cup {[IdleReq EXCEPT !.pc = "search_003", !.searchWindowMs = HourMs,
                                  !.cacheWindowMs = HourMs]} :
        req = [r \in Requests |->
                IF r = 1
                THEN [started EXCEPT !.formattedSymbol = formatSymbol(<<"B">>),
                                     !.gateChecks = 1, !.upstreamCalls = 1]
                ELSE IdleReq]

\* hourly variant: the search resolves and sortedData is built, up to the
\* first `await cacheData`
Search_000(r, tweets) ==
    /\ req[r].pc = "search_000"
    /\ Continue(r, [req[r] EXCEPT !.pc = "caching", !.next = 1,
                        !.tweets = tweets,
                        !.processedData =
                            sortedData_000(tweets, now - req[r].searchWindowMs, now)])
    /\ checked' = Unchecked
    /\ UNCHANGED <<now, rateLimit, mentions, arrivals, booting>>

\* 15-minute variant: the search resolves and sortedData is built, up to
\* the first `await cacheData`
Search_003(r, tweets) ==
    /\ req[r].pc = "search_003"
    /\ Continue(r, [req[r] EXCEPT !.pc = "caching_003", !.next = 1,
                        !.tweets = tweets,
                        !.processedData =
                            sortedData_003(tweets, now - req[r].searchWindowMs, now)])
    /\ checked' = Unchecked
    /\ UNCHANGED <<now, rateLimit, mentions, arrivals, booting>>

\* 15-minute variant: one `await cacheData(...)` of the caching loop
\* completes; a rejected query is answered 500 by the catch
CacheWrite_003(r, ok) ==
    /\ req[r].pc = "caching_003"
    /\ LET dataPoint == req[r].processedData[req[r].next]
           written == [req[r] EXCEPT !.cacheWrites = @ + 1, !.storeOk = @ /\ ok]
       IN IF ok
          THEN /\ mentions' = cacheData(req[r].formattedSymbol, dataPoint.count,
                                        dataPoint.timestamp)
               /\ IF req[r].next = Len(req[r].processedData)
                  THEN Respond(r, written, seriesResponse(req[r].processedData,
                                                         "twitter", "1 hour"))
                  ELSE Continue(r, [written EXCEPT !.next = @ + 1])
          ELSE /\ mentions' = mentions
               /\ Respond(r, written, errorResponse(500))
    /\ checked' = Unchecked
    /\ UNCHANGED <<now, rateLimit, arrivals, booting>>

NextAgg ==
    \/ \E r \in Requests :
        \E tweets \in SearchResults(now - req[r].searchWindowMs) : Search_000(r, tweets)
    \/ \E r \in Requests :
        \E tweets \in SearchResults(now - req[r].searchWindowMs) : Search_003(r, tweets)
    \/ \E r \in Requests, ok \in BOOLEAN : CacheWrite(r, ok)
    \/ \E r \in Requests, ok \in BOOLEAN : CacheWrite_003(r, ok)

AggSpec == InitAgg /\ [][NextAgg]_vars

(* ---------------- the gate check taken at its two moments ------------- *)
\* `await checkRateLimit()` at its two moments: the SELECT is executed by
\* the database (GateRead), and the handler goes on with its result in a
\* later turn of the event loop (GateResume); queries of other invocations
\* may be executed in between.  GateCheck is the two taken together.
GateRead(r) ==
    /\ req[r].pc = "gate"
    /\ LET rateLimitStatus == checkRateLimit(now, TRUE)
       IN /\ checked' = Check(rateLimitStatus, TRUE)
          /\ Continue(r, [req[r] EXCEPT !.pc = "gateRead",
                            !.gateChecks = @ + 1,
                            !.rateLimitStatus = rateLimitStatus])
    /\ rateLimit' = afterSelect(rateLimit)
    /\ UNCHANGED <<now, mentions, arrivals, booting>>

\* if (!rateLimitStatus.canMakeRequest) return 429; else the upstream call
\* is made
GateResume(r) ==
    /\ req[r].pc = "gateRead"
    /\ LET rateLimitStatus == req[r].rateLimitStatus
       IN IF ~rateLimitStatus.canMakeRequest
          THEN Respond(r, req[r], rateLimitedResponse(rateLimitStatus.resetTime,
                                                     rateLimitStatus.waitSeconds))
          ELSE Continue(r, [req[r] EXCEPT !.pc = "upstream",
                             !.upstreamCalls = @ + 1,
                             !.searchWindowMs = searchLookbackMs])
    /\ checked' = Unchecked
    /\ UNCHANGED <<now, rateLimit, mentions, arrivals, booting>>

\* The first invocation has passed the open gate and its upstream call was
\* rejected with code 429, which it has not recorded yet; every other slot
\* holds an invocation that has missed the cache and awaits its pre-flight
\* checkRateLimit.  No row is persisted.
InitGateRace ==
    /\ now = 0
    /\ rateLimit = {}
    /\ mentions = {}
    /\ sent = Quiet
    /\ checked = Unchecked
    /\ arrivals = NumReq
    /\ booting = FALSE
    /\ req = [r \in Requests |->
                IF r = 1
                THEN [IdleReq EXCEPT !.pc = "throttled",
                        !.formattedSymbol = formatSymbol(<<"B">>),
                        !.cacheWindowMs = cacheHours * HourMs,
                        !.gateChecks = 1, !.upstreamCalls = 1,
                        !.upstreamError = 429,
                        !.searchWindowMs = searchLookbackMs]
                ELSE [IdleReq EXCEPT !.pc = "gate",
                        !.formattedSymbol = formatSymbol(<<"B">>),
                        !.cacheWindowMs = cacheHours * HourMs]]

\* The store answers every query; upstream finds nothing or throttles.
NextGateRace ==
    \/ Tick
    \/ \E r \in Requests : GateRead(r)
    \/ \E r \in Requests : GateResume(r)
    \/ \E r \in Requests : UpstreamReturn(r, <<>>)
    \/ \E r \in Requests : UpstreamFail(r, 429)
    \/ \E r \in Requests : ThrottleCheck(r, TRUE)
    \/ \E r \in Requests : ThrottleWrite(r, TRUE)

GateRaceSpec == InitGateRace /\ [][NextGateRace]_vars

(* ----------------------- symbols of every shape ----------------------- *)
MaxSymbolLen == 2   \* longest req.query.symbol, in characters

\* the characters of a symbol: the marker and any other character
SymbolChars == {"$", "B"}

\* req.query.symbol as any string of up to MaxSymbolLen characters
AllSymbols == UNION {[1..n -> SymbolChars] : n \in 0..MaxSymbolLen}

\* Requests one at a time, for symbols of every shape, at one moment;
\* upstream finds nothing or MaxCount tweets in the current hour, and the
\* store accepts every row cached.
NextCanon ==
    \/ \E r \in Requests, symbol \in AllSymbols : ArriveAlone(r, symbol)
    \/ \E r \in Requests, ok \in BOOLEAN : CacheLookup(r, ok)
    \/ \E r \in Requests, ok \in BOOLEAN : GateCheck(r, ok)
    \/ \E r \in Requests : \E data \in {d \in UpstreamData(now) :
                                    d # <<>> => d[Len(d)].tweet_count = MaxCount} :
            UpstreamReturn(r, data)
    \/ \E r \in Requests, code \in {429, 401} : UpstreamFail(r, code)
    \/ \E r \in Requests : CacheWrite(r, TRUE)
    \/ \E r \in Requests, ok \in BOOLEAN : ThrottleCheck(r, ok)
    \/ \E r \in Requests, ok \in BOOLEAN : ThrottleWrite(r, ok)

CanonSpec == Init /\ [][NextCanon]_vars

(* ------------------------------ claims -------------------------------- *)
\* the step is a restart of the process: the invocations in flight end
\* without an answer
Restarted == ~booting /\ booting'

\* the least number of whole seconds that covers ms milliseconds
IsCeilSeconds(w, ms) == w * 1000 >= ms /\ (w - 1) * 1000 < ms

\* C1: for k = 1, 2, 3, ... consecutive upstream 429 responses with no clear
\* in between, each request issued after the previous backoff window has
\* expired, the k-th throttle persists attempts = k and resetAt = now +
\* min(15 min * 2^k, 24 h).  Stated as the step from k-1 to k, for requests
\* served one at a time: when an invocation whose store queries all
\* succeeded records a throttle while the row of the previous throttle is
\* still persisted (that row had expired, or the gate would have denied the
\* request), the new row has one attempt more than the old one and the
\* delay of that attempt count.
C1_BackoffEscalates ==
    [][\A r \in Requests :
        (/\ req[r].pc = "setRateLimit" /\ req'[r].pc = "idle" /\ ~Restarted
         /\ sent'.by.storeOk
         /\ rateLimit # {})
        => \E prev \in rateLimit : \E cur \in rateLimit' :
              /\ cur.attempts = prev.attempts + 1
              /\ cur.value - Min(15 * MinuteMs * Pow2(cur.attempts), 24 * HourMs) <= now]_vars

\* C2: whenever the cache lookup returns at least one row, the invocation
\* answers 200 with source = cache in that very step, having made no
\* checkRateLimit call and no upstream call; no invocation goes on after a
\* lookup that returned rows.
C2_CacheHitShortCircuits ==
    /\ \A r \in Requests : req[r].cacheHits = 0
    /\ sent.by.cacheHits > 0 =>
            /\ sent.res.status = 200
            /\ sent.res.source = "cache"
            /\ Len(sent.res.timestamps) = sent.by.cacheHits
            /\ sent.by.gateChecks = 0
            /\ sent.by.upstreamCalls = 0

C2_Witness ==
    /\ sent.by.cacheHits > 0
    /\ sent.res.source = "cache"
    /\ sent.by.formattedSymbol = <<"$", "B">>

\* C3: when the gate check of an invocation (its cache lookup was a miss)
\* reads a persisted row whose resetAt is later than now, the invocation
\* answers 429 with that resetAt and the seconds left until it, rounded up,
\* and makes no upstream call.
C3_ClosedGateDenies ==
    [][\A r \in Requests :
        (/\ req[r].pc = "gate" /\ req'[r].pc # "gate" /\ ~Restarted
         /\ checked'.ok
         /\ \E row \in rateLimit : row.value > now)
        => /\ req'[r].pc = "idle"
           /\ sent'.res.status = 429
           /\ sent'.by.cacheHits = 0
           /\ sent'.by.upstreamCalls = 0
           /\ \E row \in rateLimit :
                /\ sent'.res.resetTime = row.value
                /\ IsCeilSeconds(sent'.res.waitSeconds, row.value - now)]_vars

C3_Witness ==
    /\ sent.res.status = 429
    /\ sent.by.upstreamCalls = 0
    /\ sent.by.gateChecks = 1
    /\ sent.by.storeOk
    /\ sent.res.waitSeconds = 1800
    /\ (sent.res.resetTime - now) % 1000 # 0

\* C4: when the upstream call of an invocation that passed the gate (with
\* attempts = 0, the only value a passed check reports) fails with a
\* throttling error, requests being served one at a time and the store
\* queries of the invocation all succeeding, the reset time is computed as
\* now + 30 min, the row persisted
\* is (that reset time, attempts = 1), and the 429 response carries that
\* reset time and the seconds left until it, rounded up, at most 1800.
C4_FirstThrottle ==
    [][\A r \in Requests :
        /\ (/\ req[r].pc = "throttled" /\ req'[r].pc = "setRateLimit"
            /\ req'[r].storeOk)
           => /\ req'[r].nextAttempts = 1
              /\ req'[r].resetTime = now + 30 * MinuteMs
        /\ (/\ req[r].pc = "setRateLimit" /\ req'[r].pc = "idle" /\ ~Restarted
            /\ sent'.by.storeOk)
           => /\ rateLimit' = {[value |-> req[r].resetTime, attempts |-> 1]}
              /\ sent'.res.status = 429
              /\ sent'.res.resetTime = req[r].resetTime
              /\ sent'.res.waitSeconds <= 1800
              /\ \/ IsCeilSeconds(sent'.res.waitSeconds, req[r].resetTime - now)
                 \/ sent'.res.waitSeconds = 0 /\ req[r].resetTime <= now]_vars

C4_Witness ==
    /\ sent.res.status = 429
    /\ sent.by.upstreamCalls = 1
    /\ sent.by.storeOk
    /\ rateLimit = {[value |-> now + 30 * MinuteMs, attempts |-> 1]}
    /\ sent.res.waitSeconds = 1800

\* the schedule of the specification, in milliseconds
ScheduleMs(currentAttempts) ==
    CASE currentAttempts = 0 -> 30 * MinuteMs
      [] currentAttempts = 1 -> 1 * HourMs
      [] currentAttempts = 2 -> 2 * HourMs
      [] currentAttempts = 3 -> 4 * HourMs
      [] currentAttempts = 4 -> 8 * HourMs
      [] currentAttempts = 5 -> 16 * HourMs
      [] OTHER -> 24 * HourMs

\* C5: setRateLimit(currentAttempts), currentAttempts being what
\* checkRateLimit just returned, computes attempts = currentAttempts + 1
\* and a reset time 30 min, 1 h, 2 h, 4 h, 8 h, 16 h after now for
\* currentAttempts 0..5 and 24 h after now for every currentAttempts >= 6,
\* and its write persists exactly that pair.
C5_BackoffSchedule ==
    [][\A r \in Requests :
        /\ (req[r].pc = "throttled" /\ req'[r].pc = "setRateLimit")
           => /\ req'[r].nextAttempts = checked'.status.attempts + 1
              /\ req'[r].resetTime = now + ScheduleMs(checked'.status.attempts)
        /\ (/\ req[r].pc = "setRateLimit" /\ req'[r].pc = "idle" /\ ~Restarted
            /\ sent'.by.storeOk)
           => rateLimit' = {[value |-> req[r].resetTime,
                             attempts |-> req[r].nextAttempts]}]_vars

C5_Witness ==
    /\ sent.res.status = 429
    /\ sent.by.storeOk
    /\ \E row \in rateLimit :
          /\ row.attempts >= 8
          /\ row.value = sent.res.resetTime
          /\ row.value >= 24 * HourMs

\* C6: a checkRateLimit call whose read succeeds returns canMakeRequest =
\* true with waitSeconds = 0 exactly when no row exists or its resetAt <=
\* now; otherwise it returns canMakeRequest = false, the row's resetAt and
\* attempts, and waitSeconds = the seconds until resetAt rounded up, which
\* is at least 1.
C6_CheckStatus ==
    (checked.called /\ checked.ok) =>
        IF \A row \in rateLimit : row.value <= now
        THEN checked.status.canMakeRequest /\ checked.status.waitSeconds = 0
        ELSE /\ ~checked.status.canMakeRequest
             /\ checked.status.waitSeconds >= 1
             /\ \E row \in rateLimit :
                  /\ checked.status.resetTime = row.value
                  /\ checked.status.attempts = row.attempts
                  /\ IsCeilSeconds(checked.status.waitSeconds, row.value - now)

C6_Witness ==
    /\ checked.called /\ checked.ok
    /\ ~checked.status.canMakeRequest
    /\ checked.status.waitSeconds = 1800
    /\ \E row \in rateLimit : (row.value - now) % 1000 # 0

\* C7: if a cacheData upsert of an invocation fails after its upstream call
\* succeeded, the invocation still answers 200 with the fetched series: an
\* invocation that has attempted a cacheData write ends with 200, source
\* twitter, and the series it fetched.
C7_CacheFailureTolerated ==
    [][\A r \in Requests :
        (req[r].pc = "caching" /\ req'[r].pc = "idle" /\ ~Restarted)
        => /\ sent'.res.status = 200
           /\ sent'.res.source = "twitter"
           /\ sent'.res.timestamps =
                [i \in 1..Len(req[r].processedData) |-> req[r].processedData[i].timestamp]
           /\ sent'.res.counts =
                [i \in 1..Len(req[r].processedData) |-> req[r].processedData[i].count]]_vars

\* C8: on a cache miss the upstream search is issued over the same window
\* [now - lookback, now] that the cache lookup of the invocation used: the
\* two lookbacks are equal.
C8_SameWindow ==
    \A r \in Requests :
        req[r].upstreamCalls > 0 => req[r].searchWindowMs = req[r].cacheWindowMs

\* C9: an invocation answers 429 only if its cache lookup returned no rows,
\* and a cache lookup that succeeds while the store holds a row of the
\* symbol inside the freshness window answers 200 with source = cache,
\* whatever the rate-limit row is.
C9_GateNeverBlocksCache ==
    [][/\ sent'.res.status = 429 => sent'.by.cacheHits = 0
       /\ \A r \in Requests :
            (/\ req[r].pc = "cache" /\ req'[r].pc # "cache" /\ ~Restarted
             /\ (IF req'[r].pc = "idle" THEN sent'.by.storeOk ELSE req'[r].storeOk)
             /\ \E m \in mentions : /\ m.symbol = req[r].formattedSymbol
                                    /\ m.timestamp >= now - HourMs)
            => /\ req'[r].pc = "idle"
               /\ sent'.res.status = 200
               /\ sent'.res.source = "cache"]_vars

C9_Witness ==
    /\ sent.res.status = 200
    /\ sent.res.source = "cache"
    /\ \E row \in rateLimit : row.value > now

\* C10: between clears, also under concurrent requests, a setRateLimit
\* write to the rate-limit row that increases attempts does not decrease
\* resetAt.
C10_ResetAtMonotone ==
    [][\A prev \in rateLimit : \A cur \in rateLimit' :
        cur.attempts > prev.attempts => cur.value >= prev.value]_vars

\* the step sends the answer of a /api/mentions request
MentionsAnswered == sent'.by.pc # "idle" \/ sent'.res.status = 400

\* C11: setRateLimit is the only operation that inserts or updates the
\* rate-limit row, and it runs only after the upstream call of that request
\* was rejected with a throttling error: every step that leaves a new or
\* changed row is the write of an invocation whose one upstream call was
\* rejected with code 429, and the row is the pair that invocation computed;
\* a /api/mentions request that is answered 400, 200 (cache hit or fetch),
\* 500, or 429 by the gate leaves the row as it was in its last step, as
\* every earlier step of it did.
C11_OnlyThrottleWrites ==
    [][/\ (rateLimit' # rateLimit /\ rateLimit' # {})
          => \E r \in Requests :
                /\ req[r].pc = "setRateLimit" /\ req'[r].pc = "idle"
                /\ req[r].upstreamCalls = 1
                /\ req[r].upstreamError = 429
                /\ rateLimit' = {[value |-> req[r].resetTime,
                                  attempts |-> req[r].nextAttempts]}
       /\ (/\ MentionsAnswered
           /\ \/ sent'.res.status \in {400, 200, 500}
              \/ sent'.res.status = 429 /\ sent'.by.upstreamCalls = 0)
          => rateLimit' = rateLimit]_vars

C11_Witness ==
    /\ sent.res.status = 429
    /\ sent.by.upstreamError = 429
    /\ \E row \in rateLimit : row.attempts = 2 /\ row.value = sent.res.resetTime

\* C12: a persisted rate-limit row is removed only by the administrative
\* clear (POST /api/reset-rate-limit): every step after which a row that was
\* persisted is gone is a step that answers that request with success.
C12_OnlyClearRemoves ==
    [][(rateLimit # {} /\ rateLimit' = {})
        => sent'.res = resetResponse(TRUE)]_vars

\* C13: under any interleaving of concurrent setRateLimit calls the store
\* holds at most one row for the key 'twitter_rate_limit', and whenever a
\* write leaves a new or changed row, its (resetAt, attempts) pair is exactly
\* the pair computed by the one call whose write it is.
C13_OneRowOnePair ==
    [][/\ Cardinality(rateLimit') <= 1
       /\ (rateLimit' # rateLimit /\ rateLimit' # {})
          => \E r \in Requests :
                /\ req[r].pc = "setRateLimit" /\ req'[r].pc = "idle"
                /\ rateLimit' = {[value |-> req[r].resetTime,
                                  attempts |-> req[r].nextAttempts]}]_vars

\* a call has just written the row while another call that computed a
\* different reset time is still waiting for its write
C13_Witness ==
    /\ sent.res.status = 429
    /\ \E row \in rateLimit :
          /\ row.value = sent.by.resetTime /\ row.attempts = sent.by.nextAttempts
          /\ \E r \in Requests :
                /\ req[r].pc = "setRateLimit"
                /\ req[r].resetTime # row.value

\* the rows of the store with the key of row p of an invocation of symbol
RowsOf(store, symbol, p) ==
    {m \in store : m.symbol = symbol /\ m.timestamp = p.timestamp}

\* C14: after any sequence of cacheData writes, also of concurrent requests
\* for the same symbol, the store holds at most one row per (symbol,
\* timestamp), and a write that succeeds leaves for its key exactly the row
\* with the count it wrote (it replaces the count, it does not add to it)
\* and leaves the rows of every other key as they were.
C14_LastWriteWins ==
    [][/\ \A m1, m2 \in mentions' :
            (m1.symbol = m2.symbol /\ m1.timestamp = m2.timestamp) => m1 = m2
       /\ \A r \in Requests :
            (/\ req[r].pc = "caching"
             /\ \/ req'[r].pc = "caching" /\ req'[r].next = req[r].next + 1
                \/ req'[r].pc = "idle" /\ sent'.res.status = 200)
            => LET p == req[r].processedData[req[r].next]
                   symbol == req[r].formattedSymbol
               IN /\ RowsOf(mentions', symbol, p) =
                        {[symbol |-> symbol, timestamp |-> p.timestamp,
                          count |-> p.count]}
                  /\ mentions' \ RowsOf(mentions', symbol, p) =
                        mentions \ RowsOf(mentions, symbol, p)]_vars

\* an invocation is about to write a key that a concurrent invocation has
\* already written with another count
C14_Witness ==
    \E r \in Requests :
        /\ req[r].pc = "caching"
        /\ req[r].cacheWrites > 0
        /\ \E m \in RowsOf(mentions, req[r].formattedSymbol,
                           req[r].processedData[req[r].next]) :
                m.count # req[r].processedData[req[r].next].count

\* C15: when /api/mentions answers 200 with a series obtained from upstream
\* (which it does only if every cacheData write succeeded), then at that
\* moment the store holds, for every (timestamp, count) pair of the
\* response, the row (canonical symbol, timestamp) with exactly that count.
C15_WriteThrough ==
    [][(/\ sent'.by.pc = "caching"
        /\ sent'.res.status = 200
        /\ sent'.res.source = "twitter")
        => \A i \in 1..Len(sent'.res.timestamps) :
              [symbol |-> sent'.by.formattedSymbol,
               timestamp |-> sent'.res.timestamps[i],
               count |-> sent'.res.counts[i]] \in mentions']_vars

C15_Witness ==
    /\ sent.res.status = 200
    /\ sent.res.source = "twitter"
    /\ Len(sent.res.timestamps) = MaxBuckets
    /\ sent.by.cacheWrites = MaxBuckets
    /\ sent.res.totalMentions > 0
    /\ sent.by.storeOk

\* C16: mention rows are created or updated only after a successful upstream
\* fetch: every step that changes the mention store is a cacheData write of
\* an invocation whose cache lookup missed and whose upstream call returned
\* buckets, and a /api/mentions request answered 400, 200 from the cache,
\* 429 (by the gate or after an upstream throttle) or 500 after an upstream
\* failure has attempted no write and leaves the store as it was.
C16_WritesOnlyAfterFetch ==
    [][/\ mentions' # mentions
          => \E r \in Requests :
                /\ req[r].pc = "caching"
                /\ req[r].cacheHits = 0
                /\ req[r].upstreamCalls = 1 /\ req[r].upstreamError = 0
                /\ req[r].next \in 1..Len(req[r].processedData)
       /\ (/\ MentionsAnswered
           /\ \/ sent'.res.status \in {400, 429}
              \/ sent'.res.source = "cache"
              \/ sent'.by.upstreamError # 0)
          => /\ mentions' = mentions
             /\ sent'.by.cacheWrites = 0]_vars

C16_Witness ==
    \E r \in Requests :
        /\ req[r].pc = "caching"
        /\ req[r].cacheWrites = 1
        /\ \E m \in mentions : /\ m.symbol = req[r].formattedSymbol
                               /\ m.timestamp = req[r].processedData[1].timestamp
                               /\ m.count = req[r].processedData[1].count

\* C17: when the upstream call is rejected with an error other than
\* throttling (code other than 429), the invocation ends there with an HTTP
\* 5xx answer: it is never answered 429, it does not go on to the
\* rate-limit branch, and the step leaves the rate-limit row as it was.
C17_UpstreamErrorIs5xx ==
    [][/\ \A r \in Requests : req'[r].upstreamError \in {0, 429}
       /\ sent'.by.upstreamError \notin {0, 429}
          => /\ sent'.res.status \in 500..599
             /\ rateLimit' = rateLimit]_vars

C17_Witness ==
    /\ sent.by.upstreamError = 401
    /\ sent.res.status = 500
    /\ sent.by.upstreamCalls = 1
    /\ rateLimit # {}

\* C18: a request for /api/mentions whose symbol is missing or empty is
\* answered 400 with the error body 'Symbol is required' in its first step,
\* before any store read, gate check or upstream call of that invocation,
\* and the step changes neither the rate-limit row nor the mention store;
\* conversely a 400 is never sent by an invocation that has read the store,
\* checked the gate or called upstream.
C18_MissingSymbolIs400 ==
    [][/\ (\E r \in Requests : ArriveAlone(r, <<>>))
          => /\ sent'.res = symbolRequiredResponse
             /\ sent'.by = IdleReq
             /\ req' = req
             /\ rateLimit' = rateLimit /\ mentions' = mentions
       /\ sent'.res.status = 400
          => /\ sent'.res.message = "Symbol is required"
             /\ sent'.by.cacheWindowMs = 0 /\ sent'.by.gateChecks = 0
             /\ sent'.by.upstreamCalls = 0 /\ sent'.by.cacheWrites = 0
             /\ rateLimit' = rateLimit /\ mentions' = mentions]_vars

C18_Witness ==
    /\ sent.res = symbolRequiredResponse
    /\ sent.by = IdleReq
    /\ rateLimit # {} /\ mentions # {}

\* C19: the symbol a request is served under always starts with '$', is
\* left unchanged by canonicalizing it again, and is the same for a symbol
\* given without the marker and for that symbol with the marker put in
\* front ('BTC' and '$BTC' both give '$BTC'); so the symbol of every
\* invocation past validation, and of every row of the mention store, starts
\* with '$'.
C19_CanonicalSymbol ==
    [][/\ \A r \in Requests, symbol \in AllSymbols \ {<<>>} :
             ArriveAlone(r, symbol)
             => LET key == req'[r].formattedSymbol
                IN /\ key[1] = "$"
                   /\ formatSymbol(key) = key
                   /\ symbol[1] # "$" => /\ key = <<"$">> \o symbol
                                         /\ formatSymbol(key) = formatSymbol(symbol)
                   /\ symbol[1] = "$" => key = symbol
       /\ \A r \in Requests :
             req'[r].pc # "idle" => /\ Len(req'[r].formattedSymbol) > 0
                                    /\ req'[r].formattedSymbol[1] = "$"
       /\ \A m \in mentions' : Len(m.symbol) > 0 /\ m.symbol[1] = "$"]_vars

\* rows cached under '$B', the key of both 'B' and '$B', answer a request
C19_Witness ==
    /\ sent.res.source = "cache"
    /\ sent.by.formattedSymbol = formatSymbol(<<"B">>)
    /\ sent.by.formattedSymbol = formatSymbol(<<"$", "B">>)
    /\ \E m \in mentions : m.symbol = <<"$", "B">>
    /\ \E m \in mentions : m.symbol # <<"$", "B">>

\* C20: checkRateLimit is side-effect-free: every step in which it is
\* called, by /api/status, as the pre-flight check of /api/mentions or in
\* the 429 branch, leaves the rate-limit row and the mention store as they
\* were, whether the row is absent, in effect or expired and whether the
\* query succeeds or fails.
C20_CheckIsPure ==
    [][checked'.called => /\ rateLimit' = rateLimit
                          /\ mentions' = mentions]_vars

\* /api/status has called checkRateLimit on an expired row, which is still
\* there, and the mention store holds rows
C20_Witness ==
    /\ checked.called /\ checked.ok
    /\ sent.res.message = "No rate limit in effect"
    /\ \E row \in rateLimit : row.value <= now
    /\ mentions # {}

\* C21: a successful clear (POST /api/reset-rate-limit answered with
\* success) removes the row whatever it held, and with no setRateLimit call
\* since, the row is absent only after such a clear; every checkRateLimit
\* performed then, by /api/status or as a pre-flight check, returns
\* canMakeRequest = true and waitSeconds = 0.
C21_CheckAfterClear ==
    [][/\ sent'.res = resetResponse(TRUE) => rateLimit' = {}
       /\ (rateLimit # {} /\ rateLimit' = {}) => sent'.res = resetResponse(TRUE)
       /\ (rateLimit = {} /\ checked'.called)
          => /\ checked'.status.canMakeRequest
             /\ checked'.status.waitSeconds = 0]_vars

\* the row persisted at the start has been cleared before the clock moved,
\* and /api/status has called checkRateLimit since
C21_Witness ==
    /\ now = 0
    /\ rateLimit = {}
    /\ checked.called /\ checked.ok
    /\ checked.status.canMakeRequest /\ checked.status.waitSeconds = 0
    /\ sent.res.message = "No rate limit in effect"

\* C22: the clear is idempotent and needs no row: a clear leaves a state
\* that a further clear would not change, a clear that directly follows a
\* successful clear changes neither the rate-limit row nor the mention
\* store, and a clear whose DELETE is executed while no row exists is
\* answered with success.
C22_ClearIdempotent ==
    [][/\ ResetRateLimit(TRUE)
          => /\ deleteRateLimit(rateLimit') = rateLimit'
             /\ mentions' = mentions
       /\ (sent.res = resetResponse(TRUE) /\ \E ok \in BOOLEAN : ResetRateLimit(ok))
          => /\ rateLimit' = rateLimit
             /\ mentions' = mentions
       /\ (rateLimit = {} /\ ResetRateLimit(TRUE))
          => /\ sent'.res.status = 200
             /\ sent'.res.message = "Rate limit reset successful"
             /\ rateLimit' = {}]_vars

\* a clear has succeeded on an absent row while the mention store holds rows
C22_Witness ==
    /\ sent.res = resetResponse(TRUE)
    /\ rateLimit = {}
    /\ mentions # {}

\* C23: when the read of the rate-limit row fails, checkRateLimit permits:
\* at every call site (/api/status, the pre-flight check, the 429 branch)
\* the call returns the answer it gives when no row exists, whatever row is
\* persisted, and the checkRateLimit of every other variant of the server
\* permits in the same state as well.
C23_OneDefaultOnReadFailure ==
    [][(checked'.called /\ ~checked'.ok)
       => /\ checked'.status = permitted(now)
          /\ checked'.status.canMakeRequest
          /\ checkRateLimit_000(now, FALSE) = checked'.status.canMakeRequest
          /\ checkRateLimit_003(now, FALSE).canMakeRequest
                = checked'.status.canMakeRequest
          /\ sent'.res.status # 429]_vars

\* the read failed while a row in force was persisted, and the call permitted
C23_Witness ==
    /\ checked.called /\ ~checked.ok
    /\ checked.status.canMakeRequest
    /\ \E row \in rateLimit : row.value > now

\* the invocation has built its series (sortedData) from a search result
SeriesBuilt(r) == req[r].pc \in {"caching", "caching_003"}

\* the window of the series of invocation r and the width of its buckets
WindowStart(r) == now - req[r].searchWindowMs
WindowEnd(r) == now
BucketWidth(r) == IF req[r].pc = "caching" THEN HourMs ELSE QuarterMs
BucketFloor(r, t) == IF req[r].pc = "caching" THEN HourFloor(t) ELSE QuarterFloor(t)

\* positions in tweets.data of the events inside the window
EventsInWindow(r) ==
    {e \in 1..Len(req[r].tweets) :
        req[r].tweets[e] >= WindowStart(r) /\ req[r].tweets[e] <= WindowEnd(r)}

\* C24: the series built from a search result has exactly
\* ceil((windowEnd - windowStart) / bucketWidth) + 1 buckets, each bucket
\* start windowStart + j * bucketWidth appears exactly once, and the
\* timestamps are strictly ascending, whatever the events.
C24_DenseAscendingSeries ==
    \A r \in Requests :
        SeriesBuilt(r)
        => LET series == req[r].processedData
               n == Ceil(WindowEnd(r) - WindowStart(r), BucketWidth(r))
           IN /\ Len(series) = n + 1
              /\ \A j \in 0..n :
                    Cardinality({i \in 1..Len(series) :
                        series[i].timestamp = WindowStart(r) + j * BucketWidth(r)}) = 1
              /\ \A i \in 1..(Len(series) - 1) :
                    series[i].timestamp < series[i + 1].timestamp

\* C25: the counts of the series built from a search result add up to the
\* number of events whose created_at lies within [windowStart, windowEnd].
C25_SumIsEventsInWindow ==
    \A r \in Requests :
        SeriesBuilt(r)
        => SumCounts(req[r].processedData) = Cardinality(EventsInWindow(r))

\* C26: every bucket of the series counts exactly the events inside the
\* window whose created_at floors to its timestamp, every event inside the
\* window has such a bucket, and an event outside the window adds neither a
\* count nor a bucket.
C26_EventCountsInItsBucket ==
    \A r \in Requests :
        SeriesBuilt(r)
        => LET series == req[r].processedData
           IN /\ \A i \in 1..Len(series) :
                    series[i].count =
                        Cardinality({e \in EventsInWindow(r) :
                            BucketFloor(r, req[r].tweets[e]) = series[i].timestamp})
              /\ \A e \in EventsInWindow(r) :
                    \E i \in 1..Len(series) :
                        series[i].timestamp = BucketFloor(r, req[r].tweets[e])
              /\ \A i \in 1..Len(series) :
                    \/ \E j \in 0..Len(series) :
                            series[i].timestamp = WindowStart(r) + j * BucketWidth(r)
                    \/ \E e \in EventsInWindow(r) :
                            series[i].timestamp = BucketFloor(r, req[r].tweets[e])

\* C27: a series answered from a successful upstream call is never empty:
\* when upstream found no event, it still holds the buckets of the window,
\* each with count 0.
C27_ZeroEventsDenseSeries ==
    (sent.res.status = 200 /\ sent.res.source = "twitter" /\ sent.res.totalMentions = 0)
    => /\ Len(sent.res.timestamps) > 0
       /\ Len(sent.res.counts) = Len(sent.res.timestamps)
       /\ \A i \in 1..Len(sent.res.counts) : sent.res.counts[i] = 0

\* C28: the hourly variant, started with an empty store and an open gate
\* over a 2-hour window, whose search returns exactly three tweets, created
\* 5, 65 and 125 minutes after the start of the window, answers a series of
\* 2 buckets with counts <<1, 2>> and totalMentions = 3.
C28_ThreeEventsTwoBuckets ==
    (/\ sent.res.status = 200
     /\ sent.by.pc = "caching"
     /\ sent.by.searchWindowMs = 2 * HourMs
     /\ Len(sent.by.tweets) = 3
     /\ {sent.by.tweets[i] : i \in 1..3}
            = {now - 2 * HourMs + o * MinuteMs : o \in {5, 65, 125}})
    => /\ Len(sent.res.timestamps) = 2
       /\ sent.res.counts = <<1, 2>>
       /\ sent.res.totalMentions = 3

\* C29: no upstream call is made while the gate is closed: in every step
\* in which an invocation makes its upstream call, the persisted rate-limit
\* row is absent or its resetAt is not later than now.
C29_NoCallWhileClosed ==
    [][\A r \in Requests :
          (req[r].pc # "upstream" /\ req'[r].pc = "upstream")
          => \A row \in rateLimit' : row.value <= now']_vars

\* C30: between clears no setRateLimit write lowers the persisted resetAt
\* or the persisted attempts: a step that replaces the row by another row
\* leaves a resetAt and an attempts value that are not smaller than before.
C30_WritesNeverLower ==
    [][\A prev \in rateLimit : \A cur \in rateLimit' :
          /\ cur.value >= prev.value
          /\ cur.attempts >= prev.attempts]_vars

\* C31: when /api/mentions has answered 429 with resetTime R, a
\* checkRateLimit made right after it and before R, with its read
\* succeeding and no clear in between, returns canMakeRequest = false; also
\* when the write of setRateLimit had failed.
C31_DenialHonoured ==
    [][(/\ sent.res.status = 429
        /\ now' < sent.res.resetTime
        /\ checked'.called /\ checked'.ok)
       => ~checked'.status.canMakeRequest]_vars

\* C32: right after /api/mentions has answered 200 with a result obtained
\* from upstream, the cache lookup of a request for the same symbol, made
\* with the store available and no time elapsed, is a hit (so that request
\* is answered from cache without gate check or upstream call), whatever
\* upstream returned, an empty result included.
C32_FetchThenCacheHit ==
    (sent.res.status = 200 /\ sent.res.source = "twitter")
    => cacheHit(getCachedData(sent.by.formattedSymbol, cacheHours, now, TRUE))

\* C33: when a request is served from cache directly after /api/mentions
\* has answered 200 with a result obtained from upstream for the same
\* symbol (no time elapsed, store available), the timestamps and counts it
\* returns are those of the upstream-sourced answer.
C33_CacheEqualsFetched ==
    LET cachedData == getCachedData(sent.by.formattedSymbol, cacheHours, now, TRUE)
        cached == seriesResponse(cachedData, "cache", "1 hour")
    IN (/\ sent.res.status = 200 /\ sent.res.source = "twitter"
        /\ cacheHit(cachedData))
       => /\ cached.timestamps = sent.res.timestamps
          /\ cached.counts = sent.res.counts


(* ------------------ store failures before the upstream call ----------- *)
\* C34: a failed query stops no request before the upstream call: when the
\* query of getCachedData fails the lookup counts as a miss and the handler
\* goes on to checkRateLimit, and when the query of checkRateLimit fails the
\* gate counts as open, whatever row is stored, and the handler issues the
\* upstream call.
C34_StoreFailureFailsOpen ==
    [][\A r \in Requests :
         /\ CacheLookup(r, FALSE) => req'[r].pc = "gate"
         /\ GateCheck(r, FALSE) =>
                /\ req'[r].pc = "upstream"
                /\ req'[r].upstreamCalls = req[r].upstreamCalls + 1
                /\ sent'.res.status = 0]_vars

\* an invocation is waiting for upstream after its checkRateLimit failed
\* while a row was in effect, and after its cache lookup returned nothing
\* although the store holds fresh rows of its symbol
C34_Witness ==
    \E r \in Requests :
        /\ req[r].pc = "upstream"
        /\ req[r].cacheHits = 0
        /\ cachedRows(req[r].formattedSymbol, cacheHours, now) # <<>>
        /\ checked.called /\ ~checked.ok
        /\ \E row \in rateLimit : inEffect(row.value, now)


(* --------------------- one response per invocation -------------------- *)
\* C35: every invocation of /api/mentions sends exactly one response on
\* every control path: the step in which the handler returns or its outer
\* catch runs (the invocation ends) sends a response of that invocation,
\* a step after which the invocation still waits for a query or for
\* upstream sends none, and a request without symbol is answered 400 at
\* once.  A restart of the process is no control path of the handler.
C35_ExactlyOneResponse ==
    [][/\ \A r \in Requests :
            /\ (req[r].pc # "idle" /\ req'[r].pc = "idle" /\ ~Restarted)
                   => /\ sent'.res.status \in {200, 429, 500}
                      /\ sent'.by.pc = req[r].pc
                      /\ sent'.by.formattedSymbol = req[r].formattedSymbol
            /\ (req'[r].pc # "idle" /\ req'[r] # req[r])
                   => sent'.res.status = 0
       /\ (arrivals' # arrivals /\ req' = req) => sent'.res.status = 400]_vars

\* the caching loop was stopped by a rejected write and the invocation
\* answered by the outer catch
C35_Witness ==
    /\ sent.res.status = 500
    /\ sent.by.pc = "caching"
    /\ ~sent.by.storeOk
    /\ sent.by.cacheWrites >= 1
    /\ \A r \in Requests : req[r].pc = "idle"


(* ------------------------- GET /api/v2/mentions ----------------------- *)
searchLookbackMs_v2 == 24 * HourMs   \* start_time: Date.now() - 24 hours

\* the test series the catch block of /api/v2/mentions answers with
testData(t) ==
    [NoResponse EXCEPT !.status = 200,
        !.timestamps = [i \in 1..7 |-> t - (7 - i) * HourMs],
        !.counts = [i \in 1..7 |-> 5 + 5 * i],
        !.totalMentions = 175,
        !.source = "test (Twitter API error)",
        !.period = "6 hours",
        !.message = "Twitter API error"]

\* the handler up to `await client.v2.tweetCountsRecent(...)`: neither the
\* cache nor the rate-limit row is consulted
Arrive_v2(r, symbol) ==
    /\ req[r].pc = "idle"
    /\ \A o \in 1..(r - 1) : req[o].pc # "idle"
    /\ arrivals < MaxArrivals
    /\ arrivals' = arrivals + 1
    /\ IF missingSymbol(symbol)
       THEN Respond(r, IdleReq, symbolRequiredResponse)
       ELSE Continue(r, [IdleReq EXCEPT !.pc = "upstream_v2",
                            !.formattedSymbol = formatSymbol(symbol),
                            !.upstreamCalls = 1,
                            !.searchWindowMs = searchLookbackMs_v2])
    /\ checked' = Unchecked
    /\ UNCHANGED <<now, rateLimit, mentions, booting>>

\* tweetCountsRecent resolves: a non-empty result is answered; with an
\* empty or absent data field the `if` is skipped, control leaves the try
\* block and the handler returns having sent nothing
UpstreamReturn_v2(r, data) ==
    /\ req[r].pc = "upstream_v2"
    /\ IF Len(data) > 0
       THEN Respond(r, req[r], seriesResponse(processData(data), "twitter", "24 hours"))
       ELSE Continue(r, [req[r] EXCEPT !.pc = "returned_v2"])
    /\ checked' = Unchecked
    /\ UNCHANGED <<now, rateLimit, mentions, arrivals, booting>>

\* tweetCountsRecent rejects: the catch block answers with the test series
UpstreamFail_v2(r, code) ==
    /\ req[r].pc = "upstream_v2"
    /\ Respond(r, [req[r] EXCEPT !.upstreamError = code], testData(now))
    /\ checked' = Unchecked
    /\ UNCHANGED <<now, rateLimit, mentions, arrivals, booting>>

\* the upstream call of invocation r completes, one way or the other
UpstreamCompletes_v2(r) ==
    \/ \E data \in UpstreamData(now) : UpstreamReturn_v2(r, data)
    \/ \E code \in {429, 401} : UpstreamFail_v2(r, code)

Next_v2 ==
    \/ Tick
    \/ \E r \in Requests, symbol \in Symbols : Arrive_v2(r, symbol)
    \/ \E r \in Requests : \E data \in UpstreamData(now) : UpstreamReturn_v2(r, data)
    \/ \E r \in Requests, code \in {429, 401} : UpstreamFail_v2(r, code)

Spec_v2 == Init /\ [][Next_v2]_vars

\* every upstream call that was issued resolves or rejects (the HTTP
\* client gives up on a connection that stays silent)
FairSpec_v2 == Spec_v2 /\ \A r \in Requests : WF_vars(UpstreamCompletes_v2(r))

\* C36: every request to /api/v2/mentions with a non-empty symbol eventually
\* receives a response: an invocation waiting for upstream is eventually
\* answered (only a response frees its slot), whether upstream returns
\* data, returns an empty result or fails.
C36_v2EventuallyAnswered ==
    \A r \in Requests : (req[r].pc = "upstream_v2") ~> (req[r].pc = "idle")


(* ------------------- consistency of a series response ----------------- *)
RECURSIVE SumOf(_)
\* sum of a sequence of numbers
SumOf(counts) ==
    IF counts = <<>> THEN 0 ELSE counts[1] + SumOf(Tail(counts))

\* C37: in every 200 response of /api/mentions, from the cache or from
\* upstream, timestamps and counts have the same length and totalMentions
\* is the sum of counts.
C37_SeriesConsistent ==
    (sent.res.status = 200 /\ sent.by.pc # "idle")
    => /\ Len(sent.res.timestamps) = Len(sent.res.counts)
       /\ sent.res.totalMentions = SumOf(sent.res.counts)

\* a 200 response with two buckets that both count mentions
C37_Witness ==
    /\ sent.res.status = 200
    /\ sent.by.pc = "caching"
    /\ Len(sent.res.counts) >= 2
    /\ \A i \in 1..Len(sent.res.counts) : sent.res.counts[i] > 0
    /\ sent.res.totalMentions >= 2


(* --------- the variants that cache inside the counting loop ----------- *)
\* hourlyCount after the first n tweets of the result: one entry per hour
\* that holds one of them, sorted by time (sortedData when n is all)
hourlyCount(tweets, n) ==
    SortByTimestamp({[timestamp |-> key,
                      count |-> Cardinality({i \in 1..n : HourFloor(tweets[i]) = key})] :
                        key \in {HourFloor(tweets[i]) : i \in 1..n}})

\* An invocation of one of the two variants has missed the empty cache and
\* awaits twitterClient.v2.search; the first of them uses the symbol as it
\* came, the second one formats it.
InitRunning ==
    /\ now \in AggNows
    /\ rateLimit = {}
    /\ mentions = {}
    /\ sent = Quiet
    /\ checked = Unchecked
    /\ arrivals = 1
    /\ booting = FALSE
    /\ \E started \in
            {[IdleReq EXCEPT !.pc = "search_002", !.formattedSymbol = <<"B">>],
             [IdleReq EXCEPT !.pc = "search_004",
                             !.formattedSymbol = formatSymbol(<<"B">>)]} :
        req = [r \in Requests |->
                IF r = 1
                THEN [started EXCEPT !.upstreamCalls = 1,
                                     !.searchWindowMs = MaxWindowHours * HourMs,
                                     !.cacheWindowMs = 24 * HourMs]
                ELSE IdleReq]

\* first variant: the search resolves; the loop body runs for the first
\* tweet up to `await cacheData(symbol, count, hourKey)`, and without a
\* tweet the empty series is answered
Search_002(r, tweets) ==
    /\ req[r].pc = "search_002"
    /\ IF Len(tweets) = 0
       THEN Respond(r, req[r], [seriesResponse(<<>>, "twitter", "none")
                                    EXCEPT !.totalMentions = 0])
       ELSE Continue(r, [req[r] EXCEPT !.pc = "caching_002", !.next = 1,
                            !.tweets = tweets])
    /\ checked' = Unchecked
    /\ UNCHANGED <<now, rateLimit, mentions, arrivals, booting>>

\* second variant: the same, but an empty result is answered 404
Search_004(r, tweets) ==
    /\ req[r].pc = "search_004"
    /\ IF Len(tweets) = 0
       THEN Respond(r, req[r], errorResponse(404))
       ELSE Continue(r, [req[r] EXCEPT !.pc = "caching_004", !.next = 1,
                            !.tweets = tweets])
    /\ checked' = Unchecked
    /\ UNCHANGED <<now, rateLimit, mentions, arrivals, booting>>

\* `await cacheData(symbol, count, hourKey)` of the loop over the tweets
\* completes: `count` is the number of tweets processed so far (count++ on
\* every iteration), hourKey the hour of the tweet at hand.  After the last
\* tweet sortedData is answered; a rejected query is answered 500 by the
\* catch.
CacheWrite_002(r, ok) ==
    /\ req[r].pc = "caching_002"
    /\ LET count == req[r].next
           hourKey == HourFloor(req[r].tweets[req[r].next])
           written == [req[r] EXCEPT !.cacheWrites = @ + 1, !.storeOk = @ /\ ok]
           sortedData == hourlyCount(req[r].tweets, Len(req[r].tweets))
       IN IF ok
          THEN /\ mentions' = cacheData(req[r].formattedSymbol, count, hourKey)
               /\ IF req[r].next = Len(req[r].tweets)
                  THEN Respond(r, [written EXCEPT !.processedData = sortedData],
                               [seriesResponse(sortedData, "twitter", "none")
                                    EXCEPT !.totalMentions = 0])
                  ELSE Continue(r, [written EXCEPT !.next = @ + 1])
          ELSE /\ mentions' = mentions
               /\ Respond(r, written, errorResponse(500))
    /\ checked' = Unchecked
    /\ UNCHANGED <<now, rateLimit, arrivals, booting>>

\* the same loop in the second variant, whose answer adds totalTweets: count
CacheWrite_004(r, ok) ==
    /\ req[r].pc = "caching_004"
    /\ LET count == req[r].next
           hourKey == HourFloor(req[r].tweets[req[r].next])
           written == [req[r] EXCEPT !.cacheWrites = @ + 1, !.storeOk = @ /\ ok]
           sortedData == hourlyCount(req[r].tweets, Len(req[r].tweets))
       IN IF ok
          THEN /\ mentions' = cacheData(req[r].formattedSymbol, count, hourKey)
               /\ IF req[r].next = Len(req[r].tweets)
                  THEN Respond(r, [written EXCEPT !.processedData = sortedData],
                               [seriesResponse(sortedData, "twitter", "none")
                                    EXCEPT !.totalMentions = count])
                  ELSE Continue(r, [written EXCEPT !.next = @ + 1])
          ELSE /\ mentions' = mentions
               /\ Respond(r, written, errorResponse(500))
    /\ checked' = Unchecked
    /\ UNCHANGED <<now, rateLimit, arrivals, booting>>

NextRunning ==
    \/ \E r \in Requests :
        \E tweets \in SearchResults(now - req[r].searchWindowMs) : Search_002(r, tweets)
    \/ \E r \in Requests :
        \E tweets \in SearchResults(now - req[r].searchWindowMs) : Search_004(r, tweets)
    \/ \E r \in Requests, ok \in BOOLEAN : CacheWrite_002(r, ok)
    \/ \E r \in Requests, ok \in BOOLEAN : CacheWrite_004(r, ok)

RunningSpec == InitRunning /\ [][NextRunning]_vars

\* C38: in the two variants that cache inside the counting loop, after a
\* successful fetch the count stored for every hour bucket of the response
\* equals the count the response returns for that bucket.
C38_StoredEqualsReturned ==
    (sent.res.status = 200 /\ sent.by.pc \in {"caching_002", "caching_004"})
    => \A i \in 1..Len(sent.res.timestamps) :
          \E m \in mentions :
              /\ m.symbol = sent.by.formattedSymbol
              /\ m.timestamp = sent.res.timestamps[i]
              /\ m.count = sent.res.counts[i]

====
